---- MODULE Spec2Model ----
(***************************************************************************)
(* The Raspberry Pi camera capture scripts of iot/raspi/capture_image:     *)
(*   capture_image_adaptive.py        (script "adaptive")                  *)
(*   capture_image_advanced_manual.py (script "manual")                    *)
(*   capture_image.py                 (script "basic")                     *)
(*   read_exif_metadata.py            (script "reader")                    *)
(* Each run is one sequential process.  A step of the model is one         *)
(* statement group of the script up to and including its next call into    *)
(* the camera SDK, the image/EXIF libraries or the file system; such a     *)
(* call either returns or raises, and the choice is the environment's.     *)
(*                                                                         *)
(* Numbers: brightness and scores are floats in the code and are kept      *)
(* here in tenths (Tenths(128) is 128.0); pixel fractions are kept in      *)
(* per-mille, so 100 * fraction is permille / 10, that is permille tenths. *)
(* ExposureValue is kept in tenths of an EV, AnalogueGain in hundredths    *)
(* (so it is numerically the ISO), ColourGains in tenths.                  *)
(***************************************************************************)
EXTENDS Integers, Sequences, FiniteSets, TLC

VARIABLES
    script,            \* which of the four scripts this process runs
    args,              \* the parsed command line (argparse namespace)
    pc,                \* position of the process in the script
    picam2,            \* self.picam2 / picam2: "None", "cam", or "unbound"
    cam,               \* the camera session: which calls it has completed
    ctl,               \* the controls in effect on the camera (a dict)
    lighting_info,     \* capture_image's lighting_info
    metadata,          \* capture_image's metadata (capture_metadata() result)
    bracket,           \* the bracketing loop: i, best_filepath, best_score, scores
    files,             \* the output directory: file name |-> content
    persisted,         \* where the capture metadata record has been written
    result,            \* capture_image's return value: "none", "True", "False"
    reported,          \* an error (not a warning) has been printed
    exitCode,          \* the process exit status, -1 while running
    reader,            \* read_exif_metadata.py: the reads made and main's metadata
    raised,            \* the call whose exception reached the except clause, or "none"
    calls              \* the calls issued on the camera session, in order

vars == <<script, args, pc, picam2, cam, ctl, lighting_info, metadata, bracket,
          files, persisted, result, reported, exitCode, reader, raised, calls>>

----------------------------------------------------------------------------
(* Bounds of the model. *)

\* how many entries of FrameCatalogue a bracket or single capture may produce
NumFrames == 2
\* how many entries of PreviewCatalogue the preview sample may be
NumPreviews == 2
\* how many entries of IsoCatalogue the caller may pass as --iso
NumIsos == 1

----------------------------------------------------------------------------
(* Python values. *)

\* None, for the optional integer arguments
None == -1

\* Python truthiness of an optional integer: None and 0 are false
Truthy(x) == x # None /\ x # 0

\* Python's  a or b  on optional integers
Or(a, b) == IF Truthy(a) THEN a ELSE b

Tenths(x) == x * 10

Abs(x) == IF x < 0 THEN -x ELSE x

Min(a, b) == IF a < b THEN a ELSE b

\* {} , the empty dict
EmptyDict == [k \in {} |-> 0]

\* d[k] = v on a dict
Put(d, k, v) == [x \in DOMAIN d \cup {k} |-> IF x = k THEN v ELSE d[x]]

\* set_controls(d): the given controls replace the ones in effect, the rest stay
Merge(cur, d) == [x \in DOMAIN cur \cup DOMAIN d |-> IF x \in DOMAIN d THEN d[x] ELSE cur[x]]

\* a path removed from the directory (Path.unlink after Path.exists)
Remove(fs, names) == [x \in DOMAIN fs \ names |-> fs[x]]

----------------------------------------------------------------------------
(* Inputs. *)

\* preview samples: brightness in tenths, dark and bright pixels in per-mille
PreviewCatalogue ==
    << [brightness |-> 499,  dark |-> 900, bright |-> 0],
       [brightness |-> 999,  dark |-> 400, bright |-> 50],
       [brightness |-> 1800, dark |-> 50,  bright |-> 600],
       [brightness |-> 1801, dark |-> 0,   bright |-> 900],
       [brightness |-> 500,  dark |-> 800, bright |-> 10],
       [brightness |-> 1000, dark |-> 300, bright |-> 100],
       [brightness |-> 0,    dark |-> 1000, bright |-> 0],
       [brightness |-> 2550, dark |-> 0,   bright |-> 1000] >>

Previews == {PreviewCatalogue[i] : i \in 1..Min(NumPreviews, Len(PreviewCatalogue))}

\* captured frames: brightness in tenths, clipped highlights and shadows
\* (histogram[255] and histogram[0] over the pixel count) in per-mille
FrameCatalogue ==
    << [brightness |-> 0,    highlights |-> 0,    shadows |-> 1000],
       [brightness |-> 1180, highlights |-> 0,    shadows |-> 0],
       [brightness |-> 1230, highlights |-> 0,    shadows |-> 0],
       [brightness |-> 1330, highlights |-> 0,    shadows |-> 0],
       [brightness |-> 1280, highlights |-> 0,    shadows |-> 0],
       [brightness |-> 2550, highlights |-> 1000, shadows |-> 0] >>

Frames == {FrameCatalogue[i] : i \in 1..Min(NumFrames, Len(FrameCatalogue))}

\* --iso values (help text: 100-1600)
IsoCatalogue == <<400, 1000, 100, 1600>>

Isos == {None} \cup {IsoCatalogue[i] : i \in 1..Min(NumIsos, Len(IsoCatalogue))}

\* --exposure values, microseconds
ExposureTimes == {None, 10000}

\* --wb choices of the parser
WbChoices == {"auto", "daylight", "cloudy", "tungsten"}

\* the --wb values a command line may name: auto and the modes of wb_gains
WbRequests == {"auto", "daylight", "cloudy", "tungsten", "fluorescent"}

AdaptiveArgs ==
    [ exposure_time : ExposureTimes,
      iso : Isos,
      white_balance : WbRequests,
      adaptive_exposure : BOOLEAN,
      exposure_bracketing : BOOLEAN,
      use_json_metadata : BOOLEAN,
      list_props : BOOLEAN ]

ManualArgs ==
    [ exposure_time : ExposureTimes,
      iso : Isos,
      white_balance : WbRequests,
      list_props : BOOLEAN ]

\* what the reader finds at image_path, and beside it; display_error is an
\* embedded record whose display raises, embedded_empty an embedded {}
ImageStates ==
    {"missing", "load_error", "no_comment", "no_marker", "bad_json", "display_error",
     "embedded_empty", "embedded"}

SidecarStates == {"missing", "unreadable", "present"}

ReaderArgs ==
    [ image : ImageStates,
      sidecar : SidecarStates,
      json_only : BOOLEAN,
      exif_only : BOOLEAN,
      raw : BOOLEAN ]

----------------------------------------------------------------------------
(* Lighting classifier. *)

\* the ladder with its boundaries taken on the other side
Condition_BoundariesShifted(brightness) ==
    IF brightness <= Tenths(50) THEN "very_dark"
    ELSE IF brightness <= Tenths(100) THEN "dark"
    ELSE IF brightness >= Tenths(180) THEN "very_bright"
    ELSE "normal"

\* the if/elif ladder on brightness
Condition(brightness) ==
    IF brightness < Tenths(50) THEN "very_dark"
    ELSE IF brightness < Tenths(100) THEN "dark"
    ELSE IF brightness > Tenths(180) THEN "very_bright"
    ELSE "normal"

\* the recommended dict of each branch: iso_boost and brightness_compensation in tenths
Recommended(brightness) ==
    IF brightness < Tenths(50)
    THEN [exposure_mode |-> "long", iso_boost |-> 20, brightness_compensation |-> 3]
    ELSE IF brightness < Tenths(100)
    THEN [exposure_mode |-> "normal", iso_boost |-> 15, brightness_compensation |-> 2]
    ELSE IF brightness > Tenths(180)
    THEN [exposure_mode |-> "short", iso_boost |-> 8, brightness_compensation |-> -2]
    ELSE [exposure_mode |-> "normal", iso_boost |-> 10, brightness_compensation |-> 0]

Description(brightness) ==
    IF brightness < Tenths(50) THEN "Night/Very Dark"
    ELSE IF brightness < Tenths(100) THEN "Dawn/Dusk/Overcast"
    ELSE IF brightness > Tenths(180) THEN "Direct Sunlight"
    ELSE "Good Lighting"

\* analyze_lighting_conditions on a preview that was sampled and analysed
LightingInfo(p) ==
    [ condition |-> Condition(p.brightness),
      description |-> Description(p.brightness),
      brightness |-> p.brightness,
      dark_pixels_percent |-> p.dark,
      bright_pixels_percent |-> p.bright,
      recommended_settings |-> Recommended(p.brightness) ]

\* analyze_lighting_conditions when any step of it raised
NeutralAssessment ==
    [ condition |-> "unknown",
      description |-> "Auto",
      brightness |-> Tenths(128),
      dark_pixels_percent |-> 0,
      bright_pixels_percent |-> 0,
      recommended_settings |->
          [exposure_mode |-> "normal", iso_boost |-> 10, brightness_compensation |-> 0] ]

\* lighting_info = None
NoLighting == [condition |-> "None"]

----------------------------------------------------------------------------
(* Control sets. *)

\* the adjusted ISO taken without the cap
AdjustedIso_Uncapped(base_iso, iso_boost) == (base_iso * iso_boost) \div 10

\* min(1600, int(base_iso * iso_multiplier))
AdjustedIso(base_iso, iso_boost) == Min(1600, (base_iso * iso_boost) \div 10)

\* apply_adaptive_settings(lighting_info, base_iso=...)
apply_adaptive_settings(info, base_iso) ==
    LET recommended == info.recommended_settings
        d1 == Put(EmptyDict, "AeEnable", TRUE)
        d2 == Put(d1, "ExposureValue", recommended.brightness_compensation)
    IN  IF Truthy(base_iso)
        THEN Put(d2, "AnalogueGain", AdjustedIso(base_iso, recommended.iso_boost))
        ELSE d2

\* wb_gains, in tenths
wb_gains ==
    [ daylight |-> <<15, 25>>,
      cloudy |-> <<18, 22>>,
      tungsten |-> <<25, 12>>,
      fluorescent |-> <<20, 18>> ]

\* the manual controls_dict taken without  AeEnable = False
ManualControls_AutoExposureKept(a) ==
    LET d1 == IF Truthy(a.exposure_time)
              THEN Put(EmptyDict, "ExposureTime", a.exposure_time)
              ELSE EmptyDict
        d2 == IF Truthy(a.iso) /\ ~a.adaptive_exposure
              THEN Put(d1, "AnalogueGain", a.iso)
              ELSE d1
        d3 == IF a.white_balance # "auto"
              THEN LET d == Put(d2, "AwbEnable", FALSE)
                   IN  IF a.white_balance \in DOMAIN wb_gains
                       THEN Put(d, "ColourGains", wb_gains[a.white_balance])
                       ELSE d
              ELSE d2
    IN  d3

\* the manual controls_dict of capture_image in the adaptive script
ManualControls(a) ==
    LET d1 == IF Truthy(a.exposure_time)
              THEN Put(Put(EmptyDict, "ExposureTime", a.exposure_time), "AeEnable", FALSE)
              ELSE EmptyDict
        d2 == IF Truthy(a.iso) /\ ~a.adaptive_exposure
              THEN Put(d1, "AnalogueGain", a.iso)
              ELSE d1
        d3 == IF a.white_balance # "auto"
              THEN LET d == Put(d2, "AwbEnable", FALSE)
                   IN  IF a.white_balance \in DOMAIN wb_gains
                       THEN Put(d, "ColourGains", wb_gains[a.white_balance])
                       ELSE d
              ELSE d2
    IN  d3

----------------------------------------------------------------------------
(* Bracket scoring. *)

\* exposures = [-1.0, 0.0, 1.0], in tenths of an EV
exposures == <<-10, 0, 10>>

\* the score taken without the absolute value
Score_SignedDistance(f) ==
    Tenths(100) - (f.brightness - Tenths(128)) - f.highlights - f.shadows

\* score = 100 - abs(brightness - 128) - clipped_highlights*100 - clipped_shadows*100
Score(f) == Tenths(100) - Abs(f.brightness - Tenths(128)) - f.highlights - f.shadows

\* best_score = -1
InitialBestScore == Tenths(-1)

\* the names of the files of a run
OutFile == "captured.jpg"

BracketNames == <<"bracket_0.jpg", "bracket_1.jpg", "bracket_2.jpg">>

\* captured_<timestamp>_bracket_<i>.jpg, i = 0, 1, 2
BracketFile(i) == BracketNames[i + 1]

BracketFiles == {BracketFile(i) : i \in 0..2}

----------------------------------------------------------------------------
(* Initial state: the process has parsed its command line. *)

\* a call on the session, logged by name; set_controls with its argument
Call(name) == [name |-> name, arg |-> EmptyDict]

ControlCall(controls_dict) == [name |-> "set_controls", arg |-> controls_dict]

NewCam ==
    [ created |-> FALSE, configured |-> FALSE, started |-> FALSE,
      stopped |-> FALSE, close_called |-> FALSE, closed |-> FALSE ]

NewBracket ==
    [ i |-> 0, best_filepath |-> None, best_score |-> InitialBestScore,
      scores |-> EmptyDict ]

InitAdaptive ==
    /\ script = "adaptive"
    /\ args \in AdaptiveArgs
    /\ picam2 = "None"

InitManual ==
    /\ script = "manual"
    /\ args \in ManualArgs
    /\ picam2 = "None"

\* the basic script takes no arguments; its picam2 is a local, unbound at entry
InitBasic ==
    /\ script = "basic"
    /\ args = EmptyDict
    /\ picam2 = "unbound"

InitReader ==
    /\ script = "reader"
    /\ args \in ReaderArgs
    /\ picam2 = "None"

NewReader == [exif_reads |-> 0, json_reads |-> 0, metadata |-> "None"]

InitCommon ==
    /\ pc = "main"
    /\ cam = NewCam
    /\ ctl = EmptyDict
    /\ lighting_info = NoLighting
    /\ metadata = EmptyDict
    /\ bracket = NewBracket
    /\ files = EmptyDict
    /\ persisted = [sidecar |-> <<>>, exif |-> <<>>, embed |-> <<>>]
    /\ result = "none"
    /\ reported = FALSE
    /\ exitCode = -1
    /\ reader = NewReader
    /\ raised = "none"
    /\ calls = <<>>

Init ==
    /\ InitCommon
    /\ \/ InitAdaptive
       \/ InitManual
       \/ InitBasic
       \/ InitReader

----------------------------------------------------------------------------
(* capture_image_adaptive.py *)

\* an exception reaches capture_image's  except Exception:  the error is
\* printed and False is returned, through the finally block
Raise(call) ==
    /\ result' = "False"
    /\ reported' = TRUE
    /\ raised' = call
    /\ pc' = "finally"

\* main: parse_args rejects a --wb outside the choices (usage error, exit
\* status 2), then the dispatch on --list-props
A_Main ==
    /\ script = "adaptive" /\ pc = "main"
    /\ IF args.white_balance \in WbChoices
       THEN /\ pc' = IF args.list_props THEN "list_props" ELSE "create"
            /\ UNCHANGED <<reported, exitCode>>
       ELSE /\ pc' = "exited"
            /\ reported' = TRUE
            /\ exitCode' = 2
    /\ UNCHANGED <<calls, reader, script, args, picam2, cam, ctl, lighting_info, metadata, bracket,
                   files, persisted, result, raised>>

\* list_camera_properties, and main's return after it
A_ListProps ==
    /\ script = "adaptive" /\ pc = "list_props"
    /\ \/ \* Picamera2() raises: picam2 stays None, nothing to close
          /\ reported' = TRUE
          /\ calls' = Append(calls, Call("Picamera2"))
          /\ UNCHANGED <<picam2, cam>>
       \/ \* Picamera2() returns; camera_properties is read or raises; close() is called
          /\ picam2' = "cam"
          /\ \E closed \in BOOLEAN :
                cam' = [cam EXCEPT !.created = TRUE, !.close_called = TRUE, !.closed = closed]
          /\ reported' \in BOOLEAN
          /\ calls' = calls \o <<Call("Picamera2"), Call("camera_properties"), Call("close")>>
    /\ pc' = "exited"
    /\ exitCode' = 0
    /\ UNCHANGED <<reader, script, args, ctl, lighting_info, metadata, bracket, files,
                   persisted, result, raised>>

\* self.picam2 = Picamera2()
A_Create ==
    /\ script = "adaptive" /\ pc = "create"
    /\ \/ /\ picam2' = "cam"
          /\ cam' = [cam EXCEPT !.created = TRUE]
          /\ pc' = "configure"
          /\ UNCHANGED <<result, reported, raised>>
       \/ /\ Raise("Picamera2")
          /\ UNCHANGED <<picam2, cam>>
    /\ calls' = Append(calls, Call("Picamera2"))
    /\ UNCHANGED <<reader, script, args, ctl, lighting_info, metadata, bracket, files,
                   persisted, exitCode>>

\* create_still_configuration(...) and configure(config)
A_Configure ==
    /\ script = "adaptive" /\ pc = "configure"
    /\ \/ /\ cam' = [cam EXCEPT !.configured = TRUE]
          /\ pc' = "start"
          /\ UNCHANGED <<result, reported, raised>>
       \/ /\ Raise("configure")
          /\ UNCHANGED cam
    /\ calls' = Append(calls, Call("configure"))
    /\ UNCHANGED <<reader, script, args, picam2, ctl, lighting_info, metadata, bracket, files,
                   persisted, exitCode>>

\* the start step taken to run the analysis whatever adaptive_exposure is
A_Start_AnalyzesAlways ==
    /\ script = "adaptive" /\ pc = "start"
    /\ \/ /\ cam' = [cam EXCEPT !.started = TRUE]
          /\ pc' = "analyze"
          /\ UNCHANGED <<result, reported, raised>>
       \/ /\ Raise("start")
          /\ UNCHANGED cam
    /\ calls' = Append(calls, Call("start"))
    /\ UNCHANGED <<reader, script, args, picam2, ctl, lighting_info, metadata, bracket, files,
                   persisted, exitCode>>

\* start() and the stabilisation sleep
A_Start ==
    /\ script = "adaptive" /\ pc = "start"
    /\ \/ /\ cam' = [cam EXCEPT !.started = TRUE]
          /\ pc' = IF args.adaptive_exposure THEN "analyze" ELSE "manual"
          /\ UNCHANGED <<result, reported, raised>>
       \/ /\ Raise("start")
          /\ UNCHANGED cam
    /\ calls' = Append(calls, Call("start"))
    /\ UNCHANGED <<reader, script, args, picam2, ctl, lighting_info, metadata, bracket, files,
                   persisted, exitCode>>

\* the analysis taken without its try/except: a failure reaches capture_image
A_Analyze_Propagates ==
    /\ script = "adaptive" /\ pc = "analyze"
    /\ \/ /\ \E p \in Previews : lighting_info' = LightingInfo(p)
          /\ pc' = "adaptive_controls"
          /\ UNCHANGED <<result, reported, raised>>
       \/ /\ Raise("capture_array")
          /\ UNCHANGED lighting_info
    /\ calls' = Append(calls, Call("capture_array"))
    /\ UNCHANGED <<reader, script, args, picam2, cam, ctl, metadata, bracket, files,
                   persisted, exitCode>>

\* lighting_info = self.analyze_lighting_conditions()
A_Analyze ==
    /\ script = "adaptive" /\ pc = "analyze"
    /\ \/ \E p \in Previews : lighting_info' = LightingInfo(p)
       \/ lighting_info' = NeutralAssessment
    /\ pc' = "adaptive_controls"
    /\ calls' = Append(calls, Call("capture_array"))
    /\ UNCHANGED <<reader, script, args, picam2, cam, ctl, metadata, bracket, files,
                   persisted, result, reported, exitCode, raised>>

\* the adaptive set_controls taken without its try/except
A_AdaptiveControls_Propagates ==
    /\ script = "adaptive" /\ pc = "adaptive_controls"
    /\ LET adaptive_controls == apply_adaptive_settings(lighting_info, Or(args.iso, 400))
       IN  /\ calls' = Append(calls, ControlCall(adaptive_controls))
           /\ \/ /\ ctl' = Merge(ctl, adaptive_controls)
                 /\ pc' = "manual"
                 /\ UNCHANGED <<result, reported, raised>>
              \/ /\ Raise("set_controls")
                 /\ UNCHANGED ctl
    /\ UNCHANGED <<reader, script, args, picam2, cam, lighting_info, metadata, bracket, files,
                   persisted, exitCode>>

\* adaptive_controls = self.apply_adaptive_settings(lighting_info, base_iso=iso or 400)
\* and the guarded set_controls(adaptive_controls)
A_AdaptiveControls ==
    /\ script = "adaptive" /\ pc = "adaptive_controls"
    /\ LET adaptive_controls == apply_adaptive_settings(lighting_info, Or(args.iso, 400))
       IN  /\ calls' = Append(calls, ControlCall(adaptive_controls))
           /\ \/ ctl' = Merge(ctl, adaptive_controls)
              \/ ctl' = ctl      \* set_controls raised: warning only
    /\ pc' = "manual"
    /\ UNCHANGED <<reader, script, args, picam2, cam, lighting_info, metadata, bracket, files,
                   persisted, result, reported, exitCode, raised>>

\* the manual controls_dict and  if controls_dict: set_controls(controls_dict)
A_ManualControls ==
    /\ script = "adaptive" /\ pc = "manual"
    /\ LET controls_dict == ManualControls(args)
       IN  /\ calls' = IF DOMAIN controls_dict # {}
                        THEN Append(calls, ControlCall(controls_dict))
                        ELSE calls
           /\ \/ /\ ctl' = IF DOMAIN controls_dict # {}
                           THEN Merge(ctl, controls_dict)
                           ELSE ctl
                 /\ pc' = "capture_metadata"
                 /\ UNCHANGED <<result, reported, raised>>
              \/ /\ DOMAIN controls_dict # {}
                 /\ Raise("set_controls")
                 /\ UNCHANGED ctl
    /\ UNCHANGED <<reader, script, args, picam2, cam, lighting_info, metadata, bracket, files,
                   persisted, exitCode>>

\* the condition taken without the test of the exposure time
Bracketing_ExposureIgnored(a) == a.exposure_bracketing

\* the condition of the bracketing branch
Bracketing(a) == a.exposure_bracketing /\ ~Truthy(a.exposure_time)

\* metadata = self.picam2.capture_metadata(): the device reports the controls in effect
A_CaptureMetadata ==
    /\ script = "adaptive" /\ pc = "capture_metadata"
    /\ \/ /\ metadata' = ctl
          /\ pc' = IF Bracketing(args) THEN "bracket_set" ELSE "single"
          /\ UNCHANGED <<result, reported, raised>>
       \/ /\ Raise("capture_metadata")
          /\ UNCHANGED metadata
    /\ calls' = Append(calls, Call("capture_metadata"))
    /\ UNCHANGED <<reader, script, args, picam2, cam, ctl, lighting_info, bracket, files,
                   persisted, exitCode>>

\* the pass taken to sample the device metadata again after its set_controls
A_BracketSetControls_Resamples ==
    /\ script = "adaptive" /\ pc = "bracket_set"
    /\ \/ /\ ctl' = Merge(ctl, Put(EmptyDict, "ExposureValue", exposures[bracket.i + 1]))
          /\ metadata' = ctl'
          /\ pc' = "bracket_capture"
          /\ UNCHANGED <<result, reported, raised>>
       \/ /\ Raise("set_controls")
          /\ UNCHANGED <<ctl, metadata>>
    /\ calls' = Append(calls, ControlCall(Put(EmptyDict, "ExposureValue", exposures[bracket.i + 1])))
    /\ UNCHANGED <<reader, script, args, picam2, cam, lighting_info, bracket, files,
                   persisted, exitCode>>

\* one pass of the bracketing loop up to set_controls({ExposureValue: exp_compensation})
A_BracketSetControls ==
    /\ script = "adaptive" /\ pc = "bracket_set"
    /\ \/ /\ ctl' = Merge(ctl, Put(EmptyDict, "ExposureValue", exposures[bracket.i + 1]))
          /\ pc' = "bracket_capture"
          /\ UNCHANGED <<result, reported, raised>>
       \/ /\ Raise("set_controls")
          /\ UNCHANGED ctl
    /\ calls' = Append(calls, ControlCall(Put(EmptyDict, "ExposureValue", exposures[bracket.i + 1])))
    /\ UNCHANGED <<reader, script, args, picam2, cam, lighting_info, metadata, bracket, files,
                   persisted, exitCode>>

\* the comparison taken as  score >= best_score
Better_LaterEqualWins(b, score) ==
    IF score >= b.best_score
    THEN [b EXCEPT !.best_score = score, !.best_filepath = b.i]
    ELSE b

\* if score > best_score: best_score = score; best_filepath = bracket_filepath
Better(b, score) ==
    IF score > b.best_score
    THEN [b EXCEPT !.best_score = score, !.best_filepath = b.i]
    ELSE b

\* the loop moves to the next exposure, or ends after the third
NextPass(b) == [b EXCEPT !.i = b.i + 1]

AfterPass(b) == IF b.i + 1 < Len(exposures) THEN "bracket_set" ELSE "bracket_select"

\* capture_file(str(bracket_filepath)) and the guarded analysis of the frame
A_BracketCapture ==
    /\ script = "adaptive" /\ pc = "bracket_capture"
    /\ \/ \* the frame is written and analysed
          \E f \in Frames :
            /\ files' = Put(files, BracketFile(bracket.i), f)
            /\ bracket' = NextPass([Better(bracket, Score(f)) EXCEPT
                                       !.scores = Put(bracket.scores, bracket.i, Score(f))])
            /\ pc' = AfterPass(bracket)
            /\ UNCHANGED <<result, reported, raised>>
       \/ \* the frame is written, its analysis raises: warning only
          \E f \in Frames :
            /\ files' = Put(files, BracketFile(bracket.i), f)
            /\ bracket' = NextPass(bracket)
            /\ pc' = AfterPass(bracket)
            /\ UNCHANGED <<result, reported, raised>>
       \/ \* capture_file returns without a file: Image.open raises, warning only
          /\ bracket' = NextPass(bracket)
          /\ pc' = AfterPass(bracket)
          /\ UNCHANGED <<files, result, reported, raised>>
       \/ \* capture_file raises
          /\ Raise("capture_file")
          /\ UNCHANGED <<files, bracket>>
    /\ calls' = Append(calls, Call("capture_file"))
    /\ UNCHANGED <<reader, script, args, picam2, cam, ctl, lighting_info, metadata,
                   persisted, exitCode>>

\* if best_filepath: shutil.copy2(best_filepath, filepath), then the bracket files
\* that exist are unlinked
A_BracketSelect ==
    /\ script = "adaptive" /\ pc = "bracket_select"
    /\ \/ /\ bracket.best_filepath # None
          /\ files' = Remove(Put(files, OutFile, files[BracketFile(bracket.best_filepath)]),
                             BracketFiles)
          /\ pc' = "stop"
          /\ UNCHANGED <<result, reported, raised>>
       \/ \* copy2 raises
          /\ bracket.best_filepath # None
          /\ Raise("copy2")
          /\ UNCHANGED files
       \/ /\ bracket.best_filepath = None
          /\ pc' = "stop"
          /\ UNCHANGED <<files, result, reported, raised>>
    /\ UNCHANGED <<calls, reader, script, args, picam2, cam, ctl, lighting_info, metadata, bracket,
                   persisted, exitCode>>

\* the single capture: capture_file(str(filepath))
A_SingleCapture ==
    /\ script = "adaptive" /\ pc = "single"
    /\ \/ \E f \in Frames :
            /\ files' = Put(files, OutFile, f)
            /\ pc' = "stop"
            /\ UNCHANGED <<result, reported, raised>>
       \/ \* capture_file returns without a file
          /\ pc' = "stop"
          /\ UNCHANGED <<files, result, reported, raised>>
       \/ /\ Raise("capture_file")
          /\ UNCHANGED files
    /\ calls' = Append(calls, Call("capture_file"))
    /\ UNCHANGED <<reader, script, args, picam2, cam, ctl, lighting_info, metadata, bracket,
                   persisted, exitCode>>

\* self.picam2.stop() after the capture
A_Stop ==
    /\ script = "adaptive" /\ pc = "stop"
    /\ \/ /\ cam' = [cam EXCEPT !.stopped = TRUE]
          /\ pc' = "persist"
          /\ UNCHANGED <<result, reported, raised>>
       \/ /\ Raise("stop")
          /\ UNCHANGED cam
    /\ calls' = Append(calls, Call("stop"))
    /\ UNCHANGED <<reader, script, args, picam2, ctl, lighting_info, metadata, bracket, files,
                   persisted, exitCode>>

\* _convert_metadata_safely(metadata): None, int, float, str and bool values are
\* kept, a list or tuple (the ColourGains pair) becomes a list
_convert_metadata_safely(sample) ==
    [key \in DOMAIN sample |->
        IF key = "ColourGains" THEN [list |-> sample[key]] ELSE sample[key]]

\* the capture_metadata dict; final_image_analysis is present when the file exists
\* and its analysis did not raise; its dimensions are img.size, a tuple
CaptureRecord(a, info, meta, fs, analysed) ==
    LET safe_metadata == _convert_metadata_safely(meta)
        base == [ settings |-> a, lighting_analysis |-> info,
                  camera_metadata |-> safe_metadata ]
    IN  IF OutFile \in DOMAIN fs /\ analysed
        THEN [ settings |-> a, lighting_analysis |-> info, camera_metadata |-> safe_metadata,
               final_image_analysis |->
                   [ brightness |-> fs[OutFile].brightness,
                     dimensions |-> [tuple |-> <<"width", "height">>] ] ]
        ELSE base

\* json.dumps(capture_metadata, separators=(',', ':')): the JSON text of the
\* record, in which a tuple is written as an array
json_dumps(record) ==
    [ json |-> IF "final_image_analysis" \in DOMAIN record
               THEN [record EXCEPT !.final_image_analysis.dimensions = @.tuple]
               ELSE record ]

\* json.loads(text): the value of the JSON text, its arrays as lists
json_loads(text) == text.json

\* the 8 bytes  b"JPEG\x00\x00\x00\x00"
Marker == <<74, 80, 69, 71, 0, 0, 0, 0>>

\* user_comment = b"JPEG\x00\x00\x00\x00" + metadata_json.encode('utf-8');
\* the encoded JSON text is kept as one element after the marker bytes
UserComment(record) == Marker \o <<json_dumps(record)>>

\* how a call of _embed_metadata_in_exif on a record can end: a piexif or PIL
\* call raises; with lighting_analysis None, lighting.get raises; otherwise the
\* image is saved with the UserComment.  Each exception is caught: False.
EmbedOutcomes(record) ==
    {"library_raised"} \cup
    (IF record.lighting_analysis = NoLighting THEN {"record_raised"} ELSE {"embedded"})

\* software_info, the text of the Software tag, as its parts
SoftwareInfo(settings) ==
    <<"RaspberryPi Adaptive Camera - Quality:85">>
        \o (IF settings.adaptive_exposure THEN <<" - Adaptive">> ELSE <<>>)
        \o (IF settings.exposure_bracketing THEN <<" - Bracketed">> ELSE <<>>)

\* no tag written
NoTag == <<>>

\* the exposures below one second for which the double 1 / (exposure_us /
\* 1000000.0) falls just below the integer 1000000 / exposure_us (all of them)
ReciprocalRoundsBelow == {5, 10, 20, 40, 80, 160, 320}

\* the exposures from one to two seconds for which the double
\* (exposure_us / 1000000.0) * 1000 falls just below exposure_us / 1000
ProductRoundsBelow == {1001000 + 2000 * k : k \in 0..11}

\* denominator = int(1 / exposure_sec), exposure_sec = exposure_us / 1000000.0
Denominator(exposure_us) ==
    IF exposure_us \in ReciprocalRoundsBelow
    THEN (1000000 \div exposure_us) - 1
    ELSE 1000000 \div exposure_us

\* numerator = int(exposure_sec * 1000)
Numerator(exposure_us) ==
    IF exposure_us \in ProductRoundsBelow
    THEN (exposure_us \div 1000) - 1
    ELSE exposure_us \div 1000

\* the ExposureTime branch on camera_meta['ExposureTime']: is_number is
\* isinstance(exposure_us, (int, float)); exposure_sec < 1 is exposure_us < 10^6
ExposureTimeTag(is_number, exposure_us) ==
    IF is_number /\ exposure_us > 0
    THEN IF exposure_us < 1000000
         THEN <<1, Denominator(exposure_us)>>
         ELSE <<Numerator(exposure_us), 1000>>
    ELSE NoTag

\* the gains g / 100.0, g up to 1600, for which the double (g / 100.0) * 100
\* falls just below g
GainRoundsBelow ==
    { 29, 57, 58, 113, 114, 115, 116, 201, 203, 205, 207, 226, 228, 230, 232, 251,
      253, 255, 402, 406, 410, 414, 427, 431, 435, 439, 452, 456, 460, 464, 477, 481,
      485, 489, 502, 506, 510, 803, 804, 812, 820, 828, 829, 837, 845, 853, 854, 862,
      870, 878, 879, 887, 895, 903, 904, 912, 920, 928, 929, 937, 945, 953, 954, 962,
      970, 978, 979, 987, 995, 1003, 1004, 1012, 1020 }

\* iso_equivalent = int(analogue_gain * 100), the gain kept in hundredths
IsoEquivalent(analogue_gain) ==
    IF analogue_gain \in GainRoundsBelow THEN analogue_gain - 1 ELSE analogue_gain

\* the standard EXIF fields _embed_metadata_in_exif sets from the record
ExifTags(record) ==
    LET settings == record.settings
        lighting == record.lighting_analysis
        camera_meta == record.camera_metadata
        t0 == IF "description" \in DOMAIN lighting
              THEN Put(EmptyDict, "ImageDescription",
                       <<"Adaptive capture: ", lighting.description>>)
              ELSE EmptyDict
        t1 == Put(t0, "Software", SoftwareInfo(settings))
        t2 == IF "ExposureTime" \in DOMAIN camera_meta
                  /\ ExposureTimeTag(TRUE, camera_meta["ExposureTime"]) # NoTag
              THEN Put(t1, "ExposureTime", ExposureTimeTag(TRUE, camera_meta["ExposureTime"]))
              ELSE t1
        t3 == IF "AnalogueGain" \in DOMAIN camera_meta
              THEN Put(t2, "ISOSpeedRatings", IsoEquivalent(camera_meta["AnalogueGain"]))
              ELSE t2
    IN  t3

\* the image file after img.save(filepath, "JPEG", ..., exif=exif_bytes)
Embedded(image, record) ==
    Put(Put(image, "user_comment", UserComment(record)), "exif", ExifTags(record))

\* the metadata record is assembled and stored: the JSON side file, or
\* _embed_metadata_in_exif when the image exists
A_Persist ==
    /\ script = "adaptive" /\ pc = "persist"
    /\ \E analysed \in BOOLEAN :
        LET record == CaptureRecord(args, lighting_info, metadata, files, analysed)
        IN  IF args.use_json_metadata
            THEN \/ /\ persisted' = [persisted EXCEPT !.sidecar = Append(@, record)]
                    /\ pc' = "verify"
                    /\ UNCHANGED <<files, result, reported, raised>>
                 \/ \* open or json.dump raises
                    /\ Raise("json.dump")
                    /\ UNCHANGED <<files, persisted>>
            ELSE /\ IF OutFile \in DOMAIN files
                    THEN \E outcome \in EmbedOutcomes(record) :
                           LET metadata_embedded == (outcome = "embedded")
                           IN  /\ persisted' =
                                    [persisted EXCEPT
                                       !.exif = IF metadata_embedded THEN Append(@, record) ELSE @,
                                       !.embed = Append(@, [record |-> record,
                                                            outcome |-> outcome])]
                               /\ files' = IF metadata_embedded
                                           THEN Put(files, OutFile, Embedded(files[OutFile], record))
                                           ELSE files
                    ELSE UNCHANGED <<files, persisted>>
                 /\ pc' = "verify"
                 /\ UNCHANGED <<result, reported, raised>>
    /\ UNCHANGED <<calls, reader, script, args, picam2, cam, ctl, lighting_info, metadata, bracket,
                   exitCode>>

\* the verification taken to fail when the embedding failed
A_Verify_EmbedRequired ==
    /\ script = "adaptive" /\ pc = "verify"
    /\ IF OutFile \in DOMAIN files /\ (args.use_json_metadata \/ Len(persisted.exif) > 0)
       THEN result' = "True" /\ UNCHANGED reported
       ELSE result' = "False" /\ reported' = TRUE
    /\ pc' = "finally"
    /\ UNCHANGED raised
    /\ UNCHANGED <<calls, reader, script, args, picam2, cam, ctl, lighting_info, metadata, bracket, files,
                   persisted, exitCode>>

\* if filepath.exists(): ... return True  else: ... return False
A_Verify ==
    /\ script = "adaptive" /\ pc = "verify"
    /\ IF OutFile \in DOMAIN files
       THEN result' = "True" /\ UNCHANGED reported
       ELSE result' = "False" /\ reported' = TRUE
    /\ pc' = "finally"
    /\ UNCHANGED raised
    /\ UNCHANGED <<calls, reader, script, args, picam2, cam, ctl, lighting_info, metadata, bracket, files,
                   persisted, exitCode>>

\* finally: if self.picam2: try: stop(); close()  except: pass
Cleanup(c) ==
    { c,                                                    \* stop() raises
      [c EXCEPT !.stopped = TRUE, !.close_called = TRUE],   \* close() raises
      [c EXCEPT !.stopped = TRUE, !.close_called = TRUE, !.closed = TRUE] }

\* the finally block taken to call close() before stop()
CleanupCalls_CloseFirst(c) ==
    IF c.close_called THEN <<Call("close"), Call("stop")>> ELSE <<Call("stop")>>

\* the calls of the finally block that ended in the session state c: stop(),
\* and close() when stop() returned
CleanupCalls(c) ==
    IF c.close_called THEN <<Call("stop"), Call("close")>> ELSE <<Call("stop")>>

A_Finally ==
    /\ script = "adaptive" /\ pc = "finally"
    /\ IF picam2 = "cam"
       THEN cam' \in Cleanup(cam) /\ calls' = calls \o CleanupCalls(cam')
       ELSE cam' = cam /\ calls' = calls
    /\ pc' = "return"
    /\ UNCHANGED <<reader, script, args, picam2, ctl, lighting_info, metadata, bracket, files,
                   persisted, result, reported, exitCode, raised>>

\* main: sys.exit(0) if success else sys.exit(1)
A_Exit ==
    /\ script = "adaptive" /\ pc = "return"
    /\ exitCode' = IF result = "True" THEN 0 ELSE 1
    /\ pc' = "exited"
    /\ UNCHANGED <<calls, reader, script, args, picam2, cam, ctl, lighting_info, metadata, bracket, files,
                   persisted, result, reported, raised>>

----------------------------------------------------------------------------
(* capture_image_advanced_manual.py *)

\* main: parse_args rejects a --wb outside the choices (usage error, exit
\* status 2), then the dispatch on --list-props
M_Main ==
    /\ script = "manual" /\ pc = "main"
    /\ IF args.white_balance \in WbChoices
       THEN /\ pc' = IF args.list_props THEN "list_props" ELSE "create"
            /\ UNCHANGED <<reported, exitCode>>
       ELSE /\ pc' = "exited"
            /\ reported' = TRUE
            /\ exitCode' = 2
    /\ UNCHANGED <<calls, reader, script, args, picam2, cam, ctl, lighting_info, metadata, bracket,
                   files, persisted, result, raised>>

\* list_camera_properties, and main's return after it
M_ListProps ==
    /\ script = "manual" /\ pc = "list_props"
    /\ \/ /\ reported' = TRUE
          /\ calls' = Append(calls, Call("Picamera2"))
          /\ UNCHANGED <<picam2, cam>>
       \/ /\ picam2' = "cam"
          /\ \E closed \in BOOLEAN :
                cam' = [cam EXCEPT !.created = TRUE, !.close_called = TRUE, !.closed = closed]
          /\ reported' \in BOOLEAN
          /\ calls' = calls \o <<Call("Picamera2"), Call("camera_properties"), Call("close")>>
    /\ pc' = "exited"
    /\ exitCode' = 0
    /\ UNCHANGED <<reader, script, args, ctl, lighting_info, metadata, bracket, files,
                   persisted, result, raised>>

\* self.picam2 = Picamera2()
M_Create ==
    /\ script = "manual" /\ pc = "create"
    /\ \/ /\ picam2' = "cam"
          /\ cam' = [cam EXCEPT !.created = TRUE]
          /\ pc' = "configure"
          /\ UNCHANGED <<result, reported, raised>>
       \/ /\ Raise("Picamera2")
          /\ UNCHANGED <<picam2, cam>>
    /\ calls' = Append(calls, Call("Picamera2"))
    /\ UNCHANGED <<reader, script, args, ctl, lighting_info, metadata, bracket, files,
                   persisted, exitCode>>

\* create_still_configuration(...) and configure(config)
M_Configure ==
    /\ script = "manual" /\ pc = "configure"
    /\ \/ /\ cam' = [cam EXCEPT !.configured = TRUE]
          /\ pc' = "start"
          /\ UNCHANGED <<result, reported, raised>>
       \/ /\ Raise("configure")
          /\ UNCHANGED cam
    /\ calls' = Append(calls, Call("configure"))
    /\ UNCHANGED <<reader, script, args, picam2, ctl, lighting_info, metadata, bracket,
                   files, persisted, exitCode>>

\* start()
M_Start ==
    /\ script = "manual" /\ pc = "start"
    /\ \/ /\ cam' = [cam EXCEPT !.started = TRUE]
          /\ pc' = "manual"
          /\ UNCHANGED <<result, reported, raised>>
       \/ /\ Raise("start")
          /\ UNCHANGED cam
    /\ calls' = Append(calls, Call("start"))
    /\ UNCHANGED <<reader, script, args, picam2, ctl, lighting_info, metadata, bracket,
                   files, persisted, exitCode>>

\* the controls_dict of capture_image in the manual script
M_Controls(a) ==
    LET d1 == IF Truthy(a.exposure_time)
              THEN Put(Put(EmptyDict, "ExposureTime", a.exposure_time), "AeEnable", FALSE)
              ELSE EmptyDict
        d2 == IF Truthy(a.iso) THEN Put(d1, "AnalogueGain", a.iso) ELSE d1
    IN  IF a.white_balance # "auto" THEN Put(d2, "AwbEnable", FALSE) ELSE d2

\* if controls_dict: set_controls(controls_dict)
M_ManualControls ==
    /\ script = "manual" /\ pc = "manual"
    /\ LET controls_dict == M_Controls(args)
       IN  /\ calls' = IF DOMAIN controls_dict # {}
                        THEN Append(calls, ControlCall(controls_dict))
                        ELSE calls
           /\ \/ /\ ctl' = IF DOMAIN controls_dict # {}
                           THEN Merge(ctl, controls_dict)
                           ELSE ctl
                 /\ pc' = "capture_metadata"
                 /\ UNCHANGED <<result, reported, raised>>
              \/ /\ DOMAIN controls_dict # {}
                 /\ Raise("set_controls")
                 /\ UNCHANGED ctl
    /\ UNCHANGED <<reader, script, args, picam2, cam, lighting_info, metadata, bracket,
                   files, persisted, exitCode>>

\* metadata = self.picam2.capture_metadata()
M_CaptureMetadata ==
    /\ script = "manual" /\ pc = "capture_metadata"
    /\ \/ /\ metadata' = ctl
          /\ pc' = "single"
          /\ UNCHANGED <<result, reported, raised>>
       \/ /\ Raise("capture_metadata")
          /\ UNCHANGED metadata
    /\ calls' = Append(calls, Call("capture_metadata"))
    /\ UNCHANGED <<reader, script, args, picam2, cam, ctl, lighting_info, bracket, files,
                   persisted, exitCode>>

\* capture_file(str(filepath))
M_Capture ==
    /\ script = "manual" /\ pc = "single"
    /\ \/ \E f \in Frames :
            /\ files' = Put(files, OutFile, f)
            /\ pc' = "persist"
            /\ UNCHANGED <<result, reported, raised>>
       \/ /\ pc' = "persist"
          /\ UNCHANGED <<files, result, reported, raised>>
       \/ /\ Raise("capture_file")
          /\ UNCHANGED files
    /\ calls' = Append(calls, Call("capture_file"))
    /\ UNCHANGED <<reader, script, args, picam2, cam, ctl, lighting_info, metadata, bracket,
                   persisted, exitCode>>

\* the capture_metadata dict of the manual script; its camera_metadata is
\* {k: str(v) for k, v in metadata.items()}
M_Record(a, meta) ==
    [settings |-> a, camera_metadata |-> [k \in DOMAIN meta |-> [str |-> meta[k]]]]

\* the side file step taken to go on after a failed write
M_SaveMetadata_Tolerated ==
    /\ script = "manual" /\ pc = "persist"
    /\ \/ persisted' = [persisted EXCEPT !.sidecar = Append(@, M_Record(args, metadata))]
       \/ UNCHANGED persisted
    /\ pc' = "stop"
    /\ UNCHANGED <<result, reported, raised>>
    /\ UNCHANGED <<calls, reader, script, args, picam2, cam, ctl, lighting_info, metadata, bracket,
                   files, exitCode>>

\* with open(metadata_file, 'w') as f: json.dump(capture_metadata, f, indent=2)
M_SaveMetadata ==
    /\ script = "manual" /\ pc = "persist"
    /\ \/ /\ persisted' = [persisted EXCEPT !.sidecar = Append(@, M_Record(args, metadata))]
          /\ pc' = "stop"
          /\ UNCHANGED <<result, reported, raised>>
       \/ /\ Raise("json.dump")
          /\ UNCHANGED persisted
    /\ UNCHANGED <<calls, reader, script, args, picam2, cam, ctl, lighting_info, metadata, bracket,
                   files, exitCode>>

\* self.picam2.stop()
M_Stop ==
    /\ script = "manual" /\ pc = "stop"
    /\ \/ /\ cam' = [cam EXCEPT !.stopped = TRUE]
          /\ pc' = "verify"
          /\ UNCHANGED <<result, reported, raised>>
       \/ /\ Raise("stop")
          /\ UNCHANGED cam
    /\ calls' = Append(calls, Call("stop"))
    /\ UNCHANGED <<reader, script, args, picam2, ctl, lighting_info, metadata, bracket,
                   files, persisted, exitCode>>

\* the verification taken to succeed whether or not the file exists
M_Verify_FileIgnored ==
    /\ script = "manual" /\ pc = "verify"
    /\ result' = "True"
    /\ pc' = "finally"
    /\ UNCHANGED <<reported, raised>>
    /\ UNCHANGED <<calls, reader, script, args, picam2, cam, ctl, lighting_info, metadata, bracket,
                   files, persisted, exitCode>>

\* if filepath.exists(): ... return True  else: ... return False
M_Verify ==
    /\ script = "manual" /\ pc = "verify"
    /\ IF OutFile \in DOMAIN files
       THEN result' = "True" /\ UNCHANGED reported
       ELSE result' = "False" /\ reported' = TRUE
    /\ pc' = "finally"
    /\ UNCHANGED raised
    /\ UNCHANGED <<calls, reader, script, args, picam2, cam, ctl, lighting_info, metadata, bracket,
                   files, persisted, exitCode>>

\* finally: if self.picam2: try: stop(); close()  except: pass
M_Cleanup(c) ==
    { c,
      [c EXCEPT !.stopped = TRUE, !.close_called = TRUE],
      [c EXCEPT !.stopped = TRUE, !.close_called = TRUE, !.closed = TRUE] }

M_Finally ==
    /\ script = "manual" /\ pc = "finally"
    /\ IF picam2 = "cam"
       THEN cam' \in M_Cleanup(cam) /\ calls' = calls \o CleanupCalls(cam')
       ELSE cam' = cam /\ calls' = calls
    /\ pc' = "return"
    /\ UNCHANGED <<reader, script, args, picam2, ctl, lighting_info, metadata, bracket,
                   files, persisted, result, reported, exitCode, raised>>

\* main: sys.exit(0) if success else sys.exit(1)
M_Exit ==
    /\ script = "manual" /\ pc = "return"
    /\ exitCode' = IF result = "True" THEN 0 ELSE 1
    /\ pc' = "exited"
    /\ UNCHANGED <<calls, reader, script, args, picam2, cam, ctl, lighting_info, metadata, bracket,
                   files, persisted, result, reported, raised>>

----------------------------------------------------------------------------
(* capture_image.py *)

\* main calls capture_image()
B_Main ==
    /\ script = "basic" /\ pc = "main"
    /\ pc' = "create"
    /\ UNCHANGED <<calls, reader, script, args, picam2, cam, ctl, lighting_info, metadata, bracket,
                   files, persisted, result, reported, exitCode, raised>>

\* picam2 = Picamera2()
B_Create ==
    /\ script = "basic" /\ pc = "create"
    /\ \/ /\ picam2' = "cam"
          /\ cam' = [cam EXCEPT !.created = TRUE]
          /\ pc' = "configure"
          /\ UNCHANGED <<result, reported, raised>>
       \/ /\ Raise("Picamera2")
          /\ UNCHANGED <<picam2, cam>>
    /\ calls' = Append(calls, Call("Picamera2"))
    /\ UNCHANGED <<reader, script, args, ctl, lighting_info, metadata, bracket, files,
                   persisted, exitCode>>

\* create_still_configuration(...) and configure(config)
B_Configure ==
    /\ script = "basic" /\ pc = "configure"
    /\ \/ /\ cam' = [cam EXCEPT !.configured = TRUE]
          /\ pc' = "start"
          /\ UNCHANGED <<result, reported, raised>>
       \/ /\ Raise("configure")
          /\ UNCHANGED cam
    /\ calls' = Append(calls, Call("configure"))
    /\ UNCHANGED <<reader, script, args, picam2, ctl, lighting_info, metadata, bracket,
                   files, persisted, exitCode>>

\* start() and the warm-up sleep
B_Start ==
    /\ script = "basic" /\ pc = "start"
    /\ \/ /\ cam' = [cam EXCEPT !.started = TRUE]
          /\ pc' = "single"
          /\ UNCHANGED <<result, reported, raised>>
       \/ /\ Raise("start")
          /\ UNCHANGED cam
    /\ calls' = Append(calls, Call("start"))
    /\ UNCHANGED <<reader, script, args, picam2, ctl, lighting_info, metadata, bracket,
                   files, persisted, exitCode>>

\* capture_file(str(FILEPATH))
B_Capture ==
    /\ script = "basic" /\ pc = "single"
    /\ \/ \E f \in Frames :
            /\ files' = Put(files, OutFile, f)
            /\ pc' = "stop"
            /\ UNCHANGED <<result, reported, raised>>
       \/ /\ pc' = "stop"
          /\ UNCHANGED <<files, result, reported, raised>>
       \/ /\ Raise("capture_file")
          /\ UNCHANGED files
    /\ calls' = Append(calls, Call("capture_file"))
    /\ UNCHANGED <<reader, script, args, picam2, cam, ctl, lighting_info, metadata, bracket,
                   persisted, exitCode>>

\* picam2.stop()
B_Stop ==
    /\ script = "basic" /\ pc = "stop"
    /\ \/ /\ cam' = [cam EXCEPT !.stopped = TRUE]
          /\ pc' = "verify"
          /\ UNCHANGED <<result, reported, raised>>
       \/ /\ Raise("stop")
          /\ UNCHANGED cam
    /\ calls' = Append(calls, Call("stop"))
    /\ UNCHANGED <<reader, script, args, picam2, ctl, lighting_info, metadata, bracket,
                   files, persisted, exitCode>>

\* if FILEPATH.exists(): ... return True  else: ... return False
B_Verify ==
    /\ script = "basic" /\ pc = "verify"
    /\ IF OutFile \in DOMAIN files
       THEN result' = "True" /\ UNCHANGED reported
       ELSE result' = "False" /\ reported' = TRUE
    /\ pc' = "finally"
    /\ UNCHANGED raised
    /\ UNCHANGED <<calls, reader, script, args, picam2, cam, ctl, lighting_info, metadata, bracket,
                   files, persisted, exitCode>>

\* finally: try: picam2.stop()  except: pass
\* (with picam2 unbound the NameError is swallowed too)
B_Cleanup(c) ==
    { c,                                \* stop() raises
      [c EXCEPT !.stopped = TRUE] }     \* stop() returns; close() is never called

\* the finally block of the basic script calls stop() only
B_CleanupCalls(c) == <<Call("stop")>>

B_Finally ==
    /\ script = "basic" /\ pc = "finally"
    /\ IF picam2 = "cam"
       THEN cam' \in B_Cleanup(cam) /\ calls' = calls \o B_CleanupCalls(cam')
       ELSE cam' = cam /\ calls' = calls
    /\ pc' = "return"
    /\ UNCHANGED <<reader, script, args, picam2, ctl, lighting_info, metadata, bracket,
                   files, persisted, result, reported, exitCode, raised>>

\* main: sys.exit(0) if success else sys.exit(1)
B_Exit ==
    /\ script = "basic" /\ pc = "return"
    /\ exitCode' = IF result = "True" THEN 0 ELSE 1
    /\ pc' = "exited"
    /\ UNCHANGED <<calls, reader, script, args, picam2, cam, ctl, lighting_info, metadata, bracket,
                   files, persisted, result, reported, raised>>

----------------------------------------------------------------------------
(* read_exif_metadata.py *)

\* read_exif_metadata(image_path): the record, or None with a message
read_exif_metadata(image) ==
    CASE image = "embedded" -> "exif_record"
      [] image = "embedded_empty" -> "empty_record"
      [] OTHER -> "None"

\* the value returned when no record is read
NoMetadata == [metadata |-> "None"]

\* the display of the parsed record: lighting.get(...) raises on a
\* lighting_analysis of None, and the outer except returns None
Displayed(parsed) ==
    IF "lighting_analysis" \in DOMAIN parsed /\ parsed.lighting_analysis = NoLighting
    THEN NoMetadata
    ELSE parsed

\* read_exif_metadata on an image whose UserComment is user_comment: the marker
\* test, json_data = user_comment[8:], json.loads of the decoded text, the display
ReadUserComment(user_comment) ==
    IF Len(user_comment) >= 8 /\ SubSeq(user_comment, 1, 8) = Marker
    THEN LET json_data == SubSeq(user_comment, 9, Len(user_comment))
         IN  IF Len(json_data) = 1 THEN Displayed(json_loads(json_data[1])) ELSE NoMetadata
    ELSE NoMetadata

\* read_exif_metadata on an image file of the capture script
ReadImage(image) ==
    IF "user_comment" \in DOMAIN image THEN ReadUserComment(image.user_comment) ELSE NoMetadata

\* read_json_metadata(image_path): the record, or None with a message
read_json_metadata(sidecar) == IF sidecar = "present" THEN "json_record" ELSE "None"

\* the test taken as  metadata is None
PyNot_IsNone(value) == value = "None"

\* not metadata: true of None and of an empty record
PyNot(value) == value \in {"None", "empty_record"}

\* main of the reader: it reads, prints, and returns; the interpreter exits 0
R_Main ==
    /\ script = "reader" /\ pc = "main"
    /\ LET exif == read_exif_metadata(args.image)
           json == read_json_metadata(args.sidecar)
       IN  reader' =
             IF args.json_only
             THEN [exif_reads |-> 0, json_reads |-> 1, metadata |-> json]
             ELSE IF args.exif_only
             THEN [exif_reads |-> 1, json_reads |-> 0, metadata |-> exif]
             ELSE IF PyNot(exif)
             THEN [exif_reads |-> 1, json_reads |-> 1, metadata |-> json]
             ELSE [exif_reads |-> 1, json_reads |-> 0, metadata |-> exif]
    /\ reported' = (reader'.metadata = "None")
    /\ pc' = "exited"
    /\ exitCode' = 0
    /\ UNCHANGED <<calls, script, args, picam2, cam, ctl, lighting_info, metadata, bracket,
                   files, persisted, result, raised>>

----------------------------------------------------------------------------

Next ==
    \/ M_Main \/ M_ListProps \/ M_Create \/ M_Configure \/ M_Start
    \/ M_ManualControls \/ M_CaptureMetadata \/ M_Capture \/ M_SaveMetadata
    \/ M_Stop \/ M_Verify \/ M_Finally \/ M_Exit
    \/ B_Main \/ B_Create \/ B_Configure \/ B_Start \/ B_Capture
    \/ B_Stop \/ B_Verify \/ B_Finally \/ B_Exit
    \/ R_Main
    \/ A_Main \/ A_ListProps \/ A_Create \/ A_Configure \/ A_Start
    \/ A_Analyze \/ A_AdaptiveControls \/ A_ManualControls \/ A_CaptureMetadata
    \/ A_BracketSetControls \/ A_BracketCapture \/ A_BracketSelect \/ A_SingleCapture
    \/ A_Stop \/ A_Persist \/ A_Verify \/ A_Finally \/ A_Exit

Spec == Init /\ [][Next]_vars

----------------------------------------------------------------------------
(* The lighting classifier on its own: every brightness of the 8-bit range, *)
(* in tenths, is classified once.                                           *)

\* the largest mean brightness of an 8-bit image
MaxBrightness == 255

InitClassify ==
    /\ InitCommon
    /\ script = "classify"
    /\ args \in [brightness : 0..Tenths(MaxBrightness), dark : {0}, bright : {0}]
    /\ picam2 = "cam"

\* analyze_lighting_conditions on the preview args
C_Analyze ==
    /\ script = "classify" /\ pc = "main"
    /\ \/ lighting_info' = LightingInfo(args)
       \/ lighting_info' = NeutralAssessment
    /\ pc' = "done"
    /\ UNCHANGED <<calls, reader, script, args, picam2, cam, ctl, metadata, bracket, files,
                   persisted, result, reported, exitCode, raised>>

NextClassify == C_Analyze

SpecClassify == InitClassify /\ [][NextClassify]_vars

----------------------------------------------------------------------------
(* The bracket score on its own: two frames drawn from a grid of mean       *)
(* brightness and clipped fractions are scored side by side.                *)

\* the number of steps of the grid on each axis
ScoreSteps == 4

\* brightness in tenths over 0..255, with the ideal 128.0 added to the grid
ScoreBrightness ==
    {(i * Tenths(MaxBrightness)) \div ScoreSteps : i \in 0..ScoreSteps} \cup {Tenths(128)}

\* histogram[255] / total_pixels and histogram[0] / total_pixels, per mille
ScoreClipped == {(i * 1000) \div ScoreSteps : i \in 0..ScoreSteps}

ScoreFrames == [brightness : ScoreBrightness, highlights : ScoreClipped, shadows : ScoreClipped]

InitScore ==
    /\ InitCommon
    /\ script = "score"
    /\ args \in [f : ScoreFrames, g : ScoreFrames]
    /\ picam2 = "cam"

\* the score line of the bracketing loop on the frames f and g
S_Score ==
    /\ script = "score" /\ pc = "main"
    /\ bracket' = [bracket EXCEPT
                     !.scores = Put(Put(EmptyDict, 0, Score(args.f)), 1, Score(args.g))]
    /\ pc' = "done"
    /\ UNCHANGED <<calls, reader, script, args, picam2, cam, ctl, lighting_info, metadata, files,
                   persisted, result, reported, exitCode, raised>>

NextScore == S_Score

SpecScore == InitScore /\ [][NextScore]_vars

----------------------------------------------------------------------------
(* The adaptive control set on its own: apply_adaptive_settings as          *)
(* capture_image calls it, for every assessment and a range of --iso.       *)

\* the number of --iso values above 0, in steps of 100
IsoSteps == 25

\* --iso absent, 0, and 100, 200, ...
ControlIsos == {None, 0} \cup {i * 100 : i \in 1..IsoSteps}

InitControls ==
    /\ InitCommon
    /\ script = "controls"
    /\ args \in [iso : ControlIsos,
                 preview : {PreviewCatalogue[i] : i \in DOMAIN PreviewCatalogue}]
    /\ picam2 = "cam"

\* lighting_info = self.analyze_lighting_conditions() and
\* adaptive_controls = self.apply_adaptive_settings(lighting_info, base_iso=iso or 400)
K_Apply ==
    /\ script = "controls" /\ pc = "main"
    /\ \/ lighting_info' = LightingInfo(args.preview)
       \/ lighting_info' = NeutralAssessment
    /\ ctl' = apply_adaptive_settings(lighting_info', Or(args.iso, 400))
    /\ pc' = "done"
    /\ UNCHANGED <<calls, reader, script, args, picam2, cam, metadata, bracket, files,
                   persisted, result, reported, exitCode, raised>>

NextControls == K_Apply

SpecControls == InitControls /\ [][NextControls]_vars

----------------------------------------------------------------------------
(* The file names of a capture and of the reader.  A path is the sequence   *)
(* of its components, a file name the sequence of its pieces, each dot a    *)
(* piece of its own.                                                        *)

\* the number of characters of a timestamp
StampLen == 3

\* the largest number of components of the output directory
DirDepth == 2

\* characters of strftime("%Y%m%d_%H%M%S"): digits and the underscore
StampChars == {"0", "7", "_"}

Timestamps == [1..StampLen -> StampChars]

\* names of directories; a directory name may hold a dot
DirNames == {"incoming", "pi.d", ".."}

\* Path(incoming_dir), relative to the current directory when empty
OutputDirs == UNION {[1..n -> DirNames] : n \in 0..DirDepth}

\* directory / name
PathJoin(directory, name) == Append(directory, name)

\* path.parent and path.name
parent(path) == SubSeq(path, 1, Len(path) - 1)

name(path) == path[Len(path)]

\* the stem taken to keep the suffix
stem_SuffixKept(path) == name(path)

\* path.stem: the name without its last suffix; a dot that starts or ends the
\* name begins no suffix
stem(path) ==
    LET n == name(path)
        dots == {i \in DOMAIN n : n[i] = "."}
        last == CHOOSE i \in dots : \A j \in dots : j <= i
    IN  IF dots # {} /\ 1 < last /\ last < Len(n) THEN SubSeq(n, 1, last - 1) ELSE n

\* filename = f"captured_{timestamp}.jpg"
filename(timestamp) == <<"captured_">> \o timestamp \o <<".", "jpg">>

\* metadata_file = self.incoming_dir / f"captured_{timestamp}_metadata.json"
metadata_file(incoming_dir, timestamp) ==
    PathJoin(incoming_dir, <<"captured_">> \o timestamp \o <<"_metadata", ".", "json">>)

\* json_path = image_path.parent / f"{image_path.stem}_metadata.json"
json_path(image_path) ==
    PathJoin(parent(image_path), stem(image_path) \o <<"_metadata", ".", "json">>)

InitPaths ==
    /\ InitCommon
    /\ script = "paths"
    /\ args \in [timestamp : Timestamps, incoming_dir : OutputDirs]
    /\ picam2 = "None"

\* a capture writes the image and the side file under their names
P_Capture ==
    /\ script = "paths" /\ pc = "main"
    /\ LET filepath == PathJoin(args.incoming_dir, filename(args.timestamp))
       IN  files' = Put(Put(EmptyDict, filepath, "image"),
                        metadata_file(args.incoming_dir, args.timestamp), "sidecar")
    /\ pc' = "captured"
    /\ UNCHANGED <<calls, reader, script, args, picam2, cam, ctl, lighting_info, metadata,
                   bracket, persisted, result, reported, exitCode, raised>>

\* read_json_metadata(image_path) on the path of the image: json_path and
\* json_path.exists()
P_Read ==
    /\ script = "paths" /\ pc = "captured"
    /\ \E image_path \in DOMAIN files :
          /\ files[image_path] = "image"
          /\ reader' = [ image_path |-> image_path,
                         json_path |-> json_path(image_path),
                         exists |-> json_path(image_path) \in DOMAIN files ]
    /\ pc' = "done"
    /\ UNCHANGED <<calls, script, args, picam2, cam, ctl, lighting_info, metadata, bracket,
                   files, persisted, result, reported, exitCode, raised>>

NextPaths == P_Capture \/ P_Read

SpecPaths == InitPaths /\ [][NextPaths]_vars

----------------------------------------------------------------------------
(* The ExposureTime tag on its own: the ExposureTime branch of              *)
(* _embed_metadata_in_exif on a range of device exposures.                  *)

\* the short exposures run from -2 to this many microseconds
ExposureSteps == 400

\* the exposures of a second and more, in steps of 500 microseconds
LongSteps == 4

\* camera_meta['ExposureTime'], microseconds
ExposureSamples ==
    (-2..ExposureSteps) \cup {10000, 500000, 999999}
        \cup {1000000 + 500 * j : j \in 0..LongSteps}

InitExposure ==
    /\ InitCommon
    /\ script = "exposure"
    /\ args \in [is_number : BOOLEAN, exposure_us : ExposureSamples]
    /\ picam2 = "None"

\* if 'ExposureTime' in camera_meta: ... exif_dict['Exif'][ExposureTime] = ...
X_Embed ==
    /\ script = "exposure" /\ pc = "main"
    /\ LET tag == ExposureTimeTag(args.is_number, args.exposure_us)
       IN  files' = Put(EmptyDict, OutFile,
                        [exif |-> IF tag # NoTag
                                  THEN Put(EmptyDict, "ExposureTime", tag)
                                  ELSE EmptyDict])
    /\ pc' = "done"
    /\ UNCHANGED <<calls, reader, script, args, picam2, cam, ctl, lighting_info, metadata,
                   bracket, persisted, result, reported, exitCode, raised>>

NextExposure == X_Embed

SpecExposure == InitExposure /\ [][NextExposure]_vars

----------------------------------------------------------------------------
(* Properties. *)

Returned == pc \in {"return", "exited"}

\* C1: in the adaptive script, whatever the adaptive flag and the lighting
\* bucket, the controls in effect when the still is captured equal the manual
\* values wherever one was supplied: ExposureTime = exposure_time,
\* AnalogueGain = iso/100 and the white-balance preset gains.
C1_ManualValuesInEffect ==
    (script = "adaptive" /\ pc \in {"single", "bracket_set"}) =>
        /\ Truthy(args.exposure_time) =>
              ("ExposureTime" \in DOMAIN ctl /\ ctl["ExposureTime"] = args.exposure_time)
        /\ Truthy(args.iso) =>
              ("AnalogueGain" \in DOMAIN ctl /\ ctl["AnalogueGain"] = args.iso)
        /\ args.white_balance # "auto" =>
              ("ColourGains" \in DOMAIN ctl
                 /\ ctl["ColourGains"] = wb_gains[args.white_balance])

\* C2: in the adaptive and the manual script, once capture_image has returned
\* with the session created, the session has been stopped and closed, whichever
\* call raised.
C2_SessionStoppedAndClosed ==
    (script \in {"adaptive", "manual"} /\ pc = "return" /\ cam.created) =>
        (cam.stopped /\ cam.close_called)

\* C3: in the basic script, once capture_image() has returned with the session
\* created, the session has been stopped and closed.
C3_BasicSessionStoppedAndClosed ==
    (script = "basic" /\ pc = "return" /\ cam.created) =>
        (cam.stopped /\ cam.close_called)

AllAnalysed == DOMAIN bracket.scores = {0, 1, 2}

MaxScore(scores) == CHOOSE m \in {scores[j] : j \in DOMAIN scores} :
                        \A j \in DOMAIN scores : scores[j] <= m

\* C4: in a bracketed capture whose three frames were all captured and
\* analysed, a winner is selected and the output file exists as a copy of the
\* highest-scoring candidate (so the verification returns True).
C4_BracketWinnerPromoted ==
    (script = "adaptive" /\ Bracketing(args) /\ AllAnalysed
       /\ pc \in {"stop", "persist", "verify"}) =>
        /\ bracket.best_filepath # None
        /\ OutFile \in DOMAIN files
        /\ Score(files[OutFile]) = MaxScore(bracket.scores)

\* C5: after every bracketed run that has ended, none of the three bracket
\* temporaries remains in the output directory.
C5_NoBracketFileRemains ==
    (script = "adaptive" /\ Bracketing(args) /\ ~args.list_props /\ Returned) =>
        DOMAIN files \cap BracketFiles = {}

\* C6: every run of the adaptive script that returns True has persisted the
\* metadata record exactly once: in the JSON side file when use_json_metadata
\* is set, else in the EXIF UserComment; never both, never neither.
C6_RecordPersistedOnce ==
    (script = "adaptive" /\ pc = "return" /\ result = "True") =>
        IF args.use_json_metadata
        THEN Len(persisted.sidecar) = 1 /\ Len(persisted.exif) = 0
        ELSE Len(persisted.sidecar) = 0 /\ Len(persisted.exif) = 1

\* C7: every script exits 0 when the requested operation succeeded and 1 when
\* a failure was reported.
C7_ExitCodeTellsFailure ==
    pc = "exited" => (exitCode = (IF reported THEN 1 ELSE 0))

\* C8: when capture_metadata or capture_file raised in the adaptive script,
\* capture_image returns False, main exits 1 and close() was called on the
\* session before the exit.
C8_CaptureFailureReleases ==
    (script = "adaptive" /\ Returned /\ raised \in {"capture_metadata", "capture_file"}) =>
        /\ result = "False"
        /\ pc = "exited" => exitCode = 1
        /\ cam.close_called

\* C9: for every brightness b, the classifier answers very_dark iff b < 50,
\* dark iff 50 <= b < 100, normal iff 100 <= b <= 180, very_bright iff b > 180,
\* with the fixed triple of the bucket: very_dark (+0.3, x2.0, long),
\* dark (+0.2, x1.5, normal), normal (0.0, x1.0, normal),
\* very_bright (-0.2, x0.8, short).
C9_Classification ==
    (script = "classify" /\ pc = "done" /\ lighting_info.condition # "unknown") =>
        LET b == args.brightness
            c == lighting_info.condition
            r == lighting_info.recommended_settings
        IN  /\ (c = "very_dark") <=> (b < 500)
            /\ (c = "dark") <=> (500 <= b /\ b < 1000)
            /\ (c = "normal") <=> (1000 <= b /\ b <= 1800)
            /\ (c = "very_bright") <=> (b > 1800)
            /\ c \in {"very_dark", "dark", "normal", "very_bright"}
            /\ c = "very_dark" =>
                 r = [exposure_mode |-> "long", iso_boost |-> 20, brightness_compensation |-> 3]
            /\ c = "dark" =>
                 r = [exposure_mode |-> "normal", iso_boost |-> 15, brightness_compensation |-> 2]
            /\ c = "normal" =>
                 r = [exposure_mode |-> "normal", iso_boost |-> 10, brightness_compensation |-> 0]
            /\ c = "very_bright" =>
                 r = [exposure_mode |-> "short", iso_boost |-> 8, brightness_compensation |-> -2]

\* a brightness of exactly 50.0 has been classified, as dark
C9_Witness ==
    /\ script = "classify" /\ pc = "done"
    /\ args.brightness = 500
    /\ lighting_info.condition = "dark"

\* C10: the bracketing loop takes the offsets in the order -1, 0, +1, and
\* whenever a candidate is selected it is the lowest-index one attaining the
\* maximum score: an equal later score never replaces the current best.
C10_FirstMaximumWins ==
    script = "adaptive" =>
        /\ pc = "bracket_capture" =>
              ("ExposureValue" \in DOMAIN ctl /\ ctl["ExposureValue"] = (bracket.i - 1) * 10)
        /\ bracket.best_filepath # None =>
              /\ bracket.best_filepath \in DOMAIN bracket.scores
              /\ \A j \in DOMAIN bracket.scores :
                    /\ bracket.scores[j] <= bracket.scores[bracket.best_filepath]
                    /\ j < bracket.best_filepath =>
                          bracket.scores[j] < bracket.scores[bracket.best_filepath]

\* the loop has ended on the scores 90, 90, 90 and selected offset -1 (index 0)
C10_Witness ==
    /\ script = "adaptive" /\ pc = "bracket_select"
    /\ AllAnalysed
    /\ bracket.scores[0] = 900 /\ bracket.scores[1] = 900 /\ bracket.scores[2] = 900
    /\ bracket.best_filepath = 0

\* C11: the bracket score is 100 - |b - 128| - 100*ch - 100*cs, a function of
\* the mean brightness b and the two clipped fractions only; score(128, 0, 0)
\* = 100 is its maximum, attained nowhere else, and the score strictly
\* decreases when |b - 128| grows or when either clipped fraction grows, the
\* other two inputs fixed.
C11_ScoreShape ==
    (script = "score" /\ pc = "done") =>
        LET f == args.f
            g == args.g
            sf == bracket.scores[0]
            sg == bracket.scores[1]
            df == IF f.brightness >= 1280 THEN f.brightness - 1280 ELSE 1280 - f.brightness
            dg == IF g.brightness >= 1280 THEN g.brightness - 1280 ELSE 1280 - g.brightness
        IN  /\ sf = 1000 - df - f.highlights - f.shadows
            /\ sf <= 1000
            /\ (sf = 1000) <=> (f.brightness = 1280 /\ f.highlights = 0 /\ f.shadows = 0)
            /\ (f = g) => (sf = sg)
            /\ (df < dg /\ f.highlights = g.highlights /\ f.shadows = g.shadows) => sf > sg
            /\ (f.highlights < g.highlights /\ df = dg /\ f.shadows = g.shadows) => sf > sg
            /\ (f.shadows < g.shadows /\ df = dg /\ f.highlights = g.highlights) => sf > sg

\* the ideal frame (128, 0, 0) scored 100 next to a frame of brightness 255
\* with the same clipped fractions, scored -27
C11_Witness ==
    /\ script = "score" /\ pc = "done"
    /\ args.f = [brightness |-> 1280, highlights |-> 0, shadows |-> 0]
    /\ args.g = [brightness |-> 2550, highlights |-> 0, shadows |-> 0]
    /\ bracket.scores[0] = 1000 /\ bracket.scores[1] = -270

\* C12: for every record the adaptive script hands to _embed_metadata_in_exif
\* (lighting_analysis present or None) with no piexif or PIL call raising, the
\* image then carries a UserComment of the 8 marker bytes followed by the JSON
\* text, and read_exif_metadata returns the JSON value of the record.
C12_EmbedReadRoundTrip ==
    (script = "adaptive" /\ pc \in {"verify", "finally", "return", "exited"}) =>
        \A i \in 1..Len(persisted.embed) :
            persisted.embed[i].outcome # "library_raised" =>
                /\ OutFile \in DOMAIN files
                /\ ReadImage(files[OutFile]) = json_loads(json_dumps(persisted.embed[i].record))

\* C13: when _embed_metadata_in_exif fails, whichever of its steps raised, the
\* failure stays inside it as a warning: no exception reaches capture_image,
\* no error is reported, the image file still exists, capture_image returns
\* True and the process exits 0.
C13_EmbedFailureTolerated ==
    (script = "adaptive" /\ Len(persisted.embed) > 0
       /\ persisted.embed[1].outcome # "embedded") =>
        /\ Len(persisted.embed) = 1
        /\ OutFile \in DOMAIN files
        /\ raised = "none" /\ ~reported
        /\ pc \in {"return", "exited"} => result = "True"
        /\ pc = "exited" => exitCode = 0

\* a run with a lighting assessment in which a piexif or PIL call of the
\* embedding raised has exited 0 with the image in place
C13_Witness ==
    /\ script = "adaptive" /\ pc = "exited"
    /\ args.adaptive_exposure
    /\ Len(persisted.embed) = 1 /\ persisted.embed[1].outcome = "library_raised"
    /\ OutFile \in DOMAIN files
    /\ result = "True" /\ exitCode = 0

\* C14: when a step of analyze_lighting_conditions raises, the exception does
\* not reach capture_image: the analysis returns the neutral assessment
\* (condition unknown, brightness 128, dark and bright pixels 0, compensation
\* 0.0, ISO boost 1.0, exposure mode normal) and the run goes on to the
\* adaptive controls and the capture.
C14_AnalysisFailureNeutral ==
    script = "adaptive" =>
        /\ raised # "capture_array"
        /\ pc = "adaptive_controls" =>
              (result = "none" /\ ~reported /\ lighting_info # NoLighting)
        /\ lighting_info.condition = "unknown" =>
              /\ lighting_info.description = "Auto"
              /\ lighting_info.brightness = 1280
              /\ lighting_info.dark_pixels_percent = 0
              /\ lighting_info.bright_pixels_percent = 0
              /\ lighting_info.recommended_settings =
                     [exposure_mode |-> "normal", iso_boost |-> 10,
                      brightness_compensation |-> 0]

\* after a failed analysis the still was captured and the run returned True
C14_Witness ==
    /\ script = "adaptive" /\ pc = "return"
    /\ lighting_info.condition = "unknown"
    /\ OutFile \in DOMAIN files
    /\ result = "True" /\ raised = "none"

\* C15: for every bucket and base ISO (the --iso value, or 400 when it is
\* absent or 0) the adaptive control set has AeEnable true, ExposureValue equal
\* to the bucket's compensation and AnalogueGain = min(1600, floor(base ISO x
\* ISO boost)) / 100: the effective ISO never exceeds 1600.
C15_AdaptiveControlSet ==
    (script = "controls" /\ pc = "done") =>
        LET base == IF args.iso \in {None, 0} THEN 400 ELSE args.iso
            c == lighting_info.condition
            delta == CASE c = "very_dark" -> 3 [] c = "dark" -> 2
                       [] c = "very_bright" -> -2 [] OTHER -> 0
            boost == CASE c = "very_dark" -> 20 [] c = "dark" -> 15
                       [] c = "very_bright" -> 8 [] OTHER -> 10
            product == (base * boost) \div 10
        IN  /\ DOMAIN ctl = {"AeEnable", "ExposureValue", "AnalogueGain"}
            /\ ctl["AeEnable"] = TRUE
            /\ ctl["ExposureValue"] = delta
            /\ ctl["AnalogueGain"] = (IF product > 1600 THEN 1600 ELSE product)
            /\ ctl["AnalogueGain"] <= 1600

\* --iso 1000 in a very dark scene: 2000 is capped to 1600
C15_Witness ==
    /\ script = "controls" /\ pc = "done"
    /\ args.iso = 1000
    /\ lighting_info.condition = "very_dark"
    /\ ctl["AnalogueGain"] = 1600

\* C16: each of daylight, cloudy, tungsten and fluorescent is accepted by the
\* --wb flag of the adaptive script, and once the manual controls are applied
\* AwbEnable is false and ColourGains is the pair of the mode: (1.5, 2.5),
\* (1.8, 2.2), (2.5, 1.2), (2.0, 1.8); with auto neither control is set.
C16_WbPresetApplied ==
    script = "adaptive" =>
        /\ pc = "exited" => exitCode # 2
        /\ pc \in {"capture_metadata", "single", "bracket_set", "bracket_capture"} =>
              IF args.white_balance = "auto"
              THEN "AwbEnable" \notin DOMAIN ctl /\ "ColourGains" \notin DOMAIN ctl
              ELSE /\ "AwbEnable" \in DOMAIN ctl /\ ctl["AwbEnable"] = FALSE
                   /\ "ColourGains" \in DOMAIN ctl
                   /\ ctl["ColourGains"] =
                        (CASE args.white_balance = "daylight" -> <<15, 25>>
                           [] args.white_balance = "cloudy" -> <<18, 22>>
                           [] args.white_balance = "tungsten" -> <<25, 12>>
                           [] args.white_balance = "fluorescent" -> <<20, 18>>)

\* C17: in the three capture scripts, a run of capture_image whose output file
\* does not exist when the capture step has completed without an exception
\* returns False and exits 1; True is returned only when the file exists at
\* the verification.
C17_MissingFileFails ==
    (script \in {"adaptive", "manual", "basic"}
       /\ pc \in {"finally", "return", "exited"} /\ result # "none") =>
        /\ result = "True" => OutFile \in DOMAIN files
        /\ OutFile \notin DOMAIN files => (result = "False" /\ reported)
        /\ (pc = "exited" /\ result = "False") => exitCode = 1

\* a run of the manual script in which no call raised and capture_file left no
\* file has returned False and exited 1
C17_Witness ==
    /\ script = "manual" /\ pc = "exited"
    /\ raised = "none"
    /\ OutFile \notin DOMAIN files
    /\ result = "False" /\ exitCode = 1

AdaptiveSets == {i \in DOMAIN calls : /\ calls[i].name = "set_controls"
                                      /\ "AeEnable" \in DOMAIN calls[i].arg
                                      /\ calls[i].arg["AeEnable"] = TRUE}

ManualSets == {i \in DOMAIN calls : /\ calls[i].name = "set_controls"
                                    /\ "ExposureTime" \in DOMAIN calls[i].arg}

\* C19: in the adaptive script with adaptive exposure on and a manual exposure
\* time, the manual set_controls is issued after the adaptive set_controls and
\* is the last set_controls before the still capture: when capture_file is
\* called AeEnable is false and ExposureTime is the manual value.
C19_ManualAfterAdaptive ==
    (script = "adaptive" /\ args.adaptive_exposure /\ Truthy(args.exposure_time)) =>
        /\ \A i \in ManualSets : \A j \in AdaptiveSets : j < i
        /\ \A i \in ManualSets :
              /\ AdaptiveSets # {}
              /\ calls[i].arg["ExposureTime"] = args.exposure_time
              /\ "AeEnable" \in DOMAIN calls[i].arg /\ calls[i].arg["AeEnable"] = FALSE
              /\ \A k \in DOMAIN calls : k > i => calls[k].name # "set_controls"
        /\ \A k \in DOMAIN calls :
              calls[k].name = "capture_file" =>
                  /\ \E i \in ManualSets : i < k
                  /\ "AeEnable" \in DOMAIN ctl /\ ctl["AeEnable"] = FALSE
                  /\ "ExposureTime" \in DOMAIN ctl
                  /\ ctl["ExposureTime"] = args.exposure_time

\* the still was captured after the adaptive set (call 5) and the manual set
\* (call 6) were both applied: auto-exposure is off, the exposure time manual
C19_Witness ==
    /\ script = "adaptive" /\ pc = "stop"
    /\ args.adaptive_exposure /\ args.exposure_time = 10000
    /\ AdaptiveSets = {5} /\ ManualSets = {6}
    /\ calls[Len(calls)].name = "capture_file"
    /\ ctl["AeEnable"] = FALSE /\ ctl["ExposureTime"] = 10000
    /\ "ExposureValue" \in DOMAIN ctl

\* the place of a session call in the order create, configure, start,
\* controls and captures, stop, close
Rank ==
    [ Picamera2 |-> 0, configure |-> 1, start |-> 2,
      set_controls |-> 3, capture_array |-> 3, capture_metadata |-> 3, capture_file |-> 3,
      stop |-> 4, close |-> 5 ]

\* C20: in every run of capture_image in the three capture scripts, taken
\* when capture_image returns and the log of session calls is complete, the
\* calls follow the order create, configure, start, controls and captures,
\* stop, close: set_controls, capture_array, capture_metadata and capture_file
\* are only called after start() has returned and never after a stop(), and
\* no call follows close().
C20_SessionCallOrder ==
    (script \in {"adaptive", "manual", "basic"} /\ pc = "return") =>
        \A k \in DOMAIN calls :
            /\ k > 1 => Rank[calls[k - 1].name] <= Rank[calls[k].name]
            /\ calls[k].name = "Picamera2" <=> k = 1
            /\ calls[k].name = "configure" => k = 2
            /\ calls[k].name = "start" => k = 3
            /\ Rank[calls[k].name] = 3 =>
                  /\ k > 3 /\ calls[3].name = "start" /\ cam.started
                  /\ \A i \in 1..(k - 1) : calls[i].name \notin {"stop", "close"}
            /\ calls[k].name = "close" => k = Len(calls)

\* a run of the manual script without controls has made the calls create,
\* configure, start, capture_metadata, capture_file, stop, and in the finally
\* block stop and close
C20_Witness ==
    /\ script = "manual" /\ pc = "return"
    /\ [i \in DOMAIN calls |-> calls[i].name] =
          <<"Picamera2", "configure", "start", "capture_metadata", "capture_file",
            "stop", "stop", "close">>

\* the positions in the log of the session calls of one name
CallsNamed(call) == {k \in DOMAIN calls : calls[k].name = call}

\* the capture records this run has written, to the side file or to
\* _embed_metadata_in_exif
StoredRecords ==
    {persisted.sidecar[i] : i \in DOMAIN persisted.sidecar}
        \cup {persisted.embed[i].record : i \in DOMAIN persisted.embed}

\* C21: in a run of capture_image of the adaptive script the lighting analysis
\* is never performed twice and never with adaptive exposure disabled; with
\* adaptive exposure enabled it has been performed exactly once as soon as the
\* session has started, before every set_controls, capture_metadata and
\* capture_file call; the lighting_analysis of the capture record is the
\* assessment from which the adaptive control set of the run was computed, and
\* None when adaptive exposure is disabled.
C21_AnalysisOnce ==
    (script = "adaptive" /\ pc = "return") =>
        LET analyses == CallsNamed("capture_array")
        IN  /\ Cardinality(analyses) <= 1
            /\ ~args.adaptive_exposure => (analyses = {} /\ lighting_info = NoLighting)
            /\ (args.adaptive_exposure /\ cam.started) => Cardinality(analyses) = 1
            /\ args.adaptive_exposure =>
                  \A k \in DOMAIN calls :
                      calls[k].name \in {"set_controls", "capture_metadata", "capture_file"} =>
                          \E i \in analyses : i < k
            /\ \A r \in StoredRecords :
                  /\ r.lighting_analysis = lighting_info
                  /\ IF args.adaptive_exposure
                     THEN /\ r.lighting_analysis # NoLighting
                          /\ \E i \in analyses :
                                calls[i + 1] =
                                    ControlCall(apply_adaptive_settings(r.lighting_analysis,
                                                                        Or(args.iso, 400)))
                     ELSE r.lighting_analysis = NoLighting

\* a run with adaptive exposure analysed a very dark scene as its fourth call,
\* set the adaptive controls computed from it, and wrote a side file whose
\* lighting_analysis is that assessment
C21_Witness ==
    /\ script = "adaptive" /\ pc = "return" /\ result = "True"
    /\ args.adaptive_exposure /\ args.use_json_metadata
    /\ CallsNamed("capture_array") = {4}
    /\ Len(persisted.sidecar) = 1
    /\ persisted.sidecar[1].lighting_analysis.condition = "very_dark"
    /\ persisted.sidecar[1].lighting_analysis = lighting_info
    /\ calls[5].arg["ExposureValue"] = 3

PreCaptureControls ==
    IF script = "manual"
    THEN {M_Controls(args)}
    ELSE {Merge(applied, ManualControls(args)) :
            applied \in {EmptyDict} \cup
                        (IF args.adaptive_exposure /\ lighting_info # NoLighting
                         THEN {apply_adaptive_settings(lighting_info, Or(args.iso, 400))}
                         ELSE {})}

\* the set_controls calls of the bracketing loop: the exposure offset alone
BracketSets == {k \in DOMAIN calls : /\ calls[k].name = "set_controls"
                                     /\ DOMAIN calls[k].arg = {"ExposureValue"}}

\* C23: in the adaptive and the manual script capture_metadata() is called at
\* most once in a run, before every capture_file call and before every
\* set_controls of the bracketing loop; a record that was written has been
\* built from exactly one sample, its camera_metadata is the conversion of
\* that sample (the controls in effect before any bracket offset), and the
\* ExposureTime and ISOSpeedRatings tags of an embedded image are taken from it.
C23_MetadataSampledOnce ==
    (script \in {"adaptive", "manual"} /\ pc = "return") =>
        LET samples == CallsNamed("capture_metadata")
        IN  /\ Cardinality(samples) <= 1
            /\ \A k \in CallsNamed("capture_file") \cup BracketSets :
                  \E i \in samples : i < k
            /\ \A r \in StoredRecords :
                  /\ Cardinality(samples) = 1
                  /\ metadata \in PreCaptureControls
                  /\ DOMAIN r.camera_metadata = DOMAIN metadata
                  /\ \A key \in DOMAIN metadata :
                        IF script = "manual"
                        THEN r.camera_metadata[key].str = metadata[key]
                        ELSE IF key = "ColourGains"
                        THEN r.camera_metadata[key].list = metadata[key]
                        ELSE r.camera_metadata[key] = metadata[key]
            /\ (OutFile \in DOMAIN files /\ "exif" \in DOMAIN files[OutFile]) =>
                  LET exif == files[OutFile].exif
                  IN  /\ ("ExposureTime" \in DOMAIN exif) <=> ("ExposureTime" \in DOMAIN metadata)
                      /\ "ExposureTime" \in DOMAIN exif =>
                            exif["ExposureTime"] = <<1, 1000000 \div metadata["ExposureTime"]>>
                      /\ ("ISOSpeedRatings" \in DOMAIN exif) <=> ("AnalogueGain" \in DOMAIN metadata)
                      /\ "ISOSpeedRatings" \in DOMAIN exif =>
                            exif["ISOSpeedRatings"] = metadata["AnalogueGain"]

\* a bracketed run in a very dark scene returned True with an embedded record:
\* the controls in effect end on the offset +1.0, the record and the ISO tag
\* hold the sample taken before the loop (compensation +0.3, gain 8.0)
C23_Witness ==
    /\ script = "adaptive" /\ pc = "return" /\ result = "True"
    /\ Bracketing(args) /\ bracket.best_filepath # None
    /\ Cardinality(BracketSets) = 3
    /\ ctl["ExposureValue"] = 10
    /\ Len(persisted.embed) = 1 /\ persisted.embed[1].outcome = "embedded"
    /\ "ExposureValue" \in DOMAIN persisted.embed[1].record.camera_metadata
    /\ persisted.embed[1].record.camera_metadata["ExposureValue"] = 3
    /\ "ISOSpeedRatings" \in DOMAIN files[OutFile].exif
    /\ files[OutFile].exif["ISOSpeedRatings"] = 800

\* C24: for every timestamp and output directory, the path read_json_metadata
\* derives from the image path captured_<timestamp>.jpg is the path
\* captured_<timestamp>_metadata.json in the same directory, the one the
\* capture wrote its side file to: the reader finds that file.
C24_SidecarPathAgrees ==
    (script = "paths" /\ pc = "done") =>
        LET written == Append(args.incoming_dir,
                              <<"captured_">> \o args.timestamp \o <<"_metadata", ".", "json">>)
        IN  /\ reader.image_path =
                  Append(args.incoming_dir, <<"captured_">> \o args.timestamp \o <<".", "jpg">>)
            /\ written \in DOMAIN files /\ files[written] = "sidecar"
            /\ reader.json_path = written
            /\ reader.exists

\* the side file of captured_07_.jpg in pi.d/incoming was found at
\* pi.d/incoming/captured_07__metadata.json
C24_Witness ==
    /\ script = "paths" /\ pc = "done"
    /\ args.incoming_dir = <<"pi.d", "incoming">>
    /\ args.timestamp = <<"0", "7", "_">>
    /\ reader.json_path =
          <<"pi.d", "incoming", <<"captured_", "0", "7", "_", "_metadata", ".", "json">> >>
    /\ reader.exists

\* C25: when the write of the side file fails (the adaptive script with
\* use_json_metadata, the manual script always) the exception reaches
\* capture_image: from that step on the files on disk stay as they were, the
\* captured image included, the result is False, an error is reported, the
\* finally block calls stop() (and close() after it), and the process exits 1;
\* True is returned in side-file mode only with the side file written.  In
\* EXIF mode the metadata step always goes on to the verification.
C25_SidecarFailureFails ==
    [][ /\ (script \in {"adaptive", "manual"} /\ raised' = "json.dump") =>
              /\ script = "adaptive" => args.use_json_metadata
              /\ raised = "none" => pc = "persist"
              /\ files' = files
              /\ result' = "False" /\ reported'
              /\ pc = "finally" =>
                    \/ calls' = calls \o <<Call("stop")>>
                    \/ calls' = calls \o <<Call("stop"), Call("close")>>
              /\ pc' = "exited" => exitCode' = 1
        /\ (result' = "True" /\ (script = "manual"
                                    \/ (script = "adaptive" /\ args.use_json_metadata))) =>
              Len(persisted'.sidecar) = 1
        /\ (script = "adaptive" /\ pc = "persist" /\ ~args.use_json_metadata) =>
              (pc' = "verify" /\ raised' = "none" /\ result' = "none")
      ]_vars

\* the adaptive script in side-file mode captured the image, failed to write
\* the side file, stopped and closed the session and exited 1 with the image
\* on disk and no side file
C25_Witness ==
    /\ script = "adaptive" /\ pc = "exited"
    /\ args.use_json_metadata
    /\ raised = "json.dump"
    /\ OutFile \in DOMAIN files
    /\ Len(persisted.sidecar) = 0
    /\ result = "False" /\ exitCode = 1
    /\ calls[Len(calls)].name = "close"

\* C26: in the adaptive script the step that applies the adaptive control set
\* always goes on to the manual controls with no error reported, the
\* set_controls call refused or not; an exception of set_controls that reaches
\* capture_image comes from the manual set or from the bracketing loop: it is
\* the last set_controls of the run, no capture follows it, the result is
\* False and the process exits 1.
C26_ControlFailures ==
    script = "adaptive" =>
        /\ pc = "manual" => (result = "none" /\ ~reported /\ raised = "none")
        /\ raised = "set_controls" =>
              /\ pc \in {"finally", "return", "exited"}
              /\ result = "False" /\ reported
              /\ pc = "exited" => exitCode = 1
              /\ pc = "return" =>
                    \E k \in CallsNamed("set_controls") :
                        /\ \A j \in CallsNamed("set_controls") : j <= k
                        /\ "AeEnable" \in DOMAIN calls[k].arg => calls[k].arg["AeEnable"] = FALSE
                        /\ \A j \in DOMAIN calls : j > k => calls[j].name \in {"stop", "close"}

\* the adaptive set_controls was called and refused, no manual control was
\* given: the still was captured with no control in effect and the run
\* returned True
C26_Witness ==
    /\ script = "adaptive" /\ pc = "return" /\ result = "True"
    /\ args.adaptive_exposure /\ ~Bracketing(args)
    /\ CallsNamed("set_controls") = {5}
    /\ calls[5].arg["AeEnable"] = TRUE
    /\ ctl = EmptyDict
    /\ OutFile \in DOMAIN files
    /\ raised = "none" /\ ~reported

\* C27: the ExposureTime tag is written exactly when the device exposure e is
\* a number above 0, as (1, floor(10^6 / e)) when e < 10^6 microseconds and as
\* (floor(e / 1000), 1000) otherwise, both components integers of at least 1;
\* for a non-numeric, zero or negative exposure no tag is written.
C27_ExposureRational ==
    (script = "exposure" /\ pc = "done") =>
        LET e == args.exposure_us
            exif == files[OutFile].exif
        IN  IF args.is_number /\ e > 0
            THEN /\ "ExposureTime" \in DOMAIN exif
                 /\ exif["ExposureTime"] =
                       (IF e < 1000000 THEN <<1, 1000000 \div e>> ELSE <<e \div 1000, 1000>>)
                 /\ exif["ExposureTime"][1] >= 1 /\ exif["ExposureTime"][2] >= 1
            ELSE "ExposureTime" \notin DOMAIN exif

====
